---- MODULE Spec2Model ----
(***************************************************************************)
(* The Synacor virtual machine of src/main.rs: a fetch/decode/execute loop *)
(* over a vector of 16-bit words, eight 16-bit registers and a stack.      *)
(* A Rust panic ends the run in status "Faulted"; the `return` of opcode 0 *)
(* ends it in status "Halted".                                             *)
(***************************************************************************)
EXTENDS Integers, Naturals, Sequences, FiniteSets, TLC

VARIABLES words, registers, stack, pc, status, fault, output, steps, callers, last,
          run, listing

vars == <<words, registers, stack, pc, status, fault, output, steps, callers, last,
          run, listing>>

(* ---------------------------- bounds ----------------------------------- *)

\* number of instructions one run of the model executes
MaxSteps == 10

(* ------------------------- program constants --------------------------- *)

\* first operand word that names a register (register 0)
RegBase == 32768
\* number of registers
NumRegs == 8
\* 0x7FFF, the mask applied to computed results
Mask15 == 32767
\* 2^16, the width of a u16
Two16 == 65536

\* callers entry of a stack slot that was not pushed by `call`
NoCaller == -1

(* ------------------------------ helpers -------------------------------- *)

\* words[i] of the source (the vector is 0-based)
W(i) == words[i + 1]

InBounds(i) == i >= 0 /\ i < Len(words)

\* the bits of two u16 values are combined one position at a time
RECURSIVE BitWise(_, _, _, _)
BitWise(x, y, n, f) ==
    IF n = 0 THEN 0
    ELSE f[x % 2, y % 2] + 2 * BitWise(x \div 2, y \div 2, n - 1, f)

\* the u16 operators `&`, `|` and `!` of the source
BitAnd(x, y) ==
    BitWise(x, y, 16, [p \in 0..1, q \in 0..1 |-> IF p = 1 /\ q = 1 THEN 1 ELSE 0])

BitOr(x, y) ==
    BitWise(x, y, 16, [p \in 0..1, q \in 0..1 |-> IF p = 1 \/ q = 1 THEN 1 ELSE 0])

BitNot(x) ==
    BitWise(x, 0, 16, [p \in 0..1, q \in 0..1 |-> 1 - p])

\* register 0 taken for a literal
literal_or_register_Gt(addr, regs) ==
    IF addr > RegBase THEN regs[addr - RegBase] ELSE addr

\* fn literal_or_register: the value of a source operand
literal_or_register(addr, regs) ==
    IF addr >= RegBase THEN regs[addr - RegBase] ELSE addr

\* the panics literal_or_register(words[i], ..) can end in: the index into
\* words, then the index into registers
SrcErr(i) ==
    IF ~InBounds(i) THEN {"IndexWords"}
    ELSE IF W(i) >= RegBase + NumRegs THEN {"IndexRegisters"}
    ELSE {}

\* a literal destination accepted
DstErr_LiteralAccepted(i) ==
    IF ~InBounds(i) THEN {"IndexWords"}
    ELSE IF W(i) >= RegBase + NumRegs THEN {"IndexRegisters"}
    ELSE {}

\* the panics register(words[i], ..) can end in: addr - 32768 overflows
\* (checked build) or wraps to an index past the registers (unchecked build)
DstErr(i) ==
    IF ~InBounds(i) THEN {"IndexWords"}
    ELSE IF W(i) < RegBase THEN {"SubOverflow", "IndexRegisters"}
    ELSE IF W(i) >= RegBase + NumRegs THEN {"IndexRegisters"}
    ELSE {}

\* the first panic met in evaluation order
RECURSIVE FirstErr(_)
FirstErr(errs) ==
    IF errs = <<>> THEN {}
    ELSE IF Head(errs) # {} THEN Head(errs)
    ELSE FirstErr(Tail(errs))

\* fn register: the register a destination operand names
register(addr) == addr - RegBase

\* a panic: the run ends, stk and out are what the handler did before it
Panic(kinds, stk, clr, out) ==
    /\ \E k \in kinds : fault' = k
    /\ status' = "Faulted"
    /\ stack' = stk
    /\ callers' = clr
    /\ output' = out
    /\ UNCHANGED <<words, registers, pc>>

PanicHere(kinds) == Panic(kinds, stack, callers, output)

\* no pushes on record
NoRun == [base |-> <<>>, vals |-> <<>>, pops |-> 0]

\* the record of the latest pushes and of the pops that followed them, after
\* the instruction op at pc: base is the stack before the first of the
\* pushes, vals the values pushed, pops the number of pops since
RunAfter(op) ==
    IF op = 2 /\ SrcErr(pc + 1) = {}
    THEN LET v == literal_or_register(W(pc + 1), registers) IN
         IF run.vals = <<>> \/ run.pops > 0
         THEN [base |-> stack, vals |-> <<v>>, pops |-> 0]
         ELSE [run EXCEPT !.vals = Append(@, v)]
    ELSE IF op = 3 /\ DstErr(pc + 1) = {} /\ stack # <<>>
    THEN IF run.pops < Len(run.vals)
         THEN [run EXCEPT !.pops = @ + 1]
         ELSE NoRun
    ELSE IF op \in {17, 18} THEN NoRun
    ELSE run

\* the loop fetched opcode op at pc
Fetch(op) ==
    /\ status = "Running"
    /\ steps < MaxSteps
    /\ InBounds(pc)
    /\ W(pc) = op
    /\ steps' = steps + 1
    /\ last' = [op |-> op, at |-> pc]
    /\ run' = RunAfter(op)
    /\ UNCHANGED listing

(* --------------------- results of the instructions --------------------- *)

EqResult(b, c) == IF b = c THEN 1 ELSE 0
GtResult(b, c) == IF b > c THEN 1 ELSE 0
\* the sum without the 15-bit mask
AddResult_NoMask(b, c) == (b + c) % Two16

\* b.wrapping_add(c) & 0x7FFF
AddResult(b, c) == BitAnd((b + c) % Two16, Mask15)
\* b.wrapping_mul(c) & 0x7FFF
MultResult(b, c) == BitAnd((b * c) % Two16, Mask15)
\* (b % c) & 0x7FFF, for c # 0
ModResult(b, c) == BitAnd(b % c, Mask15)
AndResult(b, c) == BitAnd(BitAnd(b, c), Mask15)
OrResult(b, c) == BitAnd(BitOr(b, c), Mask15)
\* the complement without the 15-bit mask
NotResult_NoMask(b) == BitNot(b)

\* (!b) & 0x7FFF
NotResult(b) == BitAnd(BitNot(b), Mask15)

(* the panics of reading the operands, in the order the handlers read them *)
Err3 == FirstErr(<<SrcErr(pc + 2), SrcErr(pc + 3), DstErr(pc + 1)>>)
Err2 == FirstErr(<<SrcErr(pc + 2), DstErr(pc + 1)>>)

OpA == literal_or_register(W(pc + 1), registers)
OpB == literal_or_register(W(pc + 2), registers)
OpC == literal_or_register(W(pc + 3), registers)

\* *a = v; pc = pc + n
Store(v, n) ==
    /\ registers' = [registers EXCEPT ![register(W(pc + 1))] = v]
    /\ pc' = pc + n
    /\ UNCHANGED <<words, stack, callers, output, status, fault>>

\* pc = target
Goto(target) ==
    /\ pc' = target
    /\ UNCHANGED <<words, registers, stack, callers, output, status, fault>>

(* ------------------------------ actions -------------------------------- *)

\* a pc past the end of the vector wrapped to the first word
FetchFault_WrapsToZero ==
    /\ status = "Running"
    /\ steps < MaxSteps
    /\ ~InBounds(pc)
    /\ steps' = steps + 1
    /\ pc' = 0
    /\ UNCHANGED <<words, registers, stack, callers, output, status, fault,
                   last, run, listing>>

\* words[pc] with pc past the end of the vector
FetchFault ==
    /\ status = "Running"
    /\ steps < MaxSteps
    /\ ~InBounds(pc)
    /\ steps' = steps + 1
    /\ UNCHANGED <<last, run, listing>>
    /\ PanicHere({"IndexWords"})

Halt ==
    /\ Fetch(0)
    /\ status' = "Halted"
    /\ UNCHANGED <<words, registers, stack, callers, pc, fault, output>>

Set ==
    /\ Fetch(1)
    /\ IF Err2 # {} THEN PanicHere(Err2) ELSE Store(OpB, 3)

Push ==
    /\ Fetch(2)
    /\ IF SrcErr(pc + 1) # {} THEN PanicHere(SrcErr(pc + 1))
       ELSE /\ stack' = Append(stack, OpA)
            /\ callers' = Append(callers, NoCaller)
            /\ pc' = pc + 2
            /\ UNCHANGED <<words, registers, output, status, fault>>

\* Pop taking the element off the stack before it looks at its destination
Pop_PopsBeforeDestination ==
    /\ Fetch(3)
    /\ IF stack = <<>> THEN PanicHere({"EmptyStack"})
       ELSE IF DstErr(pc + 1) # {}
       THEN Panic(DstErr(pc + 1), SubSeq(stack, 1, Len(stack) - 1),
                  SubSeq(callers, 1, Len(callers) - 1), output)
       ELSE /\ registers' = [registers EXCEPT
                                ![register(W(pc + 1))] = stack[Len(stack)]]
            /\ stack' = SubSeq(stack, 1, Len(stack) - 1)
            /\ callers' = SubSeq(callers, 1, Len(callers) - 1)
            /\ pc' = pc + 2
            /\ UNCHANGED <<words, output, status, fault>>

\* Pop taking the oldest element of the stack
Pop_TakesOldest ==
    /\ Fetch(3)
    /\ IF DstErr(pc + 1) # {} THEN PanicHere(DstErr(pc + 1))
       ELSE IF stack = <<>> THEN PanicHere({"EmptyStack"})
       ELSE /\ registers' = [registers EXCEPT ![register(W(pc + 1))] = Head(stack)]
            /\ stack' = Tail(stack)
            /\ callers' = Tail(callers)
            /\ pc' = pc + 2
            /\ UNCHANGED <<words, output, status, fault>>

\* Pop with an empty stack taken for a stack holding 0
Pop_EmptyYieldsZero ==
    /\ Fetch(3)
    /\ IF DstErr(pc + 1) # {} THEN PanicHere(DstErr(pc + 1))
       ELSE /\ registers' = [registers EXCEPT
                                ![register(W(pc + 1))] =
                                    IF stack = <<>> THEN 0 ELSE stack[Len(stack)]]
            /\ stack' = SubSeq(stack, 1, Len(stack) - 1)
            /\ callers' = SubSeq(callers, 1, Len(callers) - 1)
            /\ pc' = pc + 2
            /\ UNCHANGED <<words, output, status, fault>>

Pop ==
    /\ Fetch(3)
    /\ IF DstErr(pc + 1) # {} THEN PanicHere(DstErr(pc + 1))
       ELSE IF stack = <<>> THEN PanicHere({"EmptyStack"})
       ELSE /\ registers' = [registers EXCEPT
                                ![register(W(pc + 1))] = stack[Len(stack)]]
            /\ stack' = SubSeq(stack, 1, Len(stack) - 1)
            /\ callers' = SubSeq(callers, 1, Len(callers) - 1)
            /\ pc' = pc + 2
            /\ UNCHANGED <<words, output, status, fault>>

Eq ==
    /\ Fetch(4)
    /\ IF Err3 # {} THEN PanicHere(Err3) ELSE Store(EqResult(OpB, OpC), 4)

Gt ==
    /\ Fetch(5)
    /\ IF Err3 # {} THEN PanicHere(Err3) ELSE Store(GtResult(OpB, OpC), 4)

\* Jmp leaving a return address on the stack, as call does
Jmp_PushesReturn ==
    /\ Fetch(6)
    /\ IF SrcErr(pc + 1) # {} THEN PanicHere(SrcErr(pc + 1))
       ELSE /\ stack' = Append(stack, (pc + 2) % Two16)
            /\ callers' = Append(callers, NoCaller)
            /\ pc' = OpA
            /\ UNCHANGED <<words, registers, output, status, fault>>

Jmp ==
    /\ Fetch(6)
    /\ IF SrcErr(pc + 1) # {} THEN PanicHere(SrcErr(pc + 1)) ELSE Goto(OpA)

JtErr == FirstErr(<<SrcErr(pc + 1), SrcErr(pc + 2)>>)

\* Jt jumping whatever its first operand is
Jt_AlwaysJumps ==
    /\ Fetch(7)
    /\ IF JtErr # {} THEN PanicHere(JtErr) ELSE Goto(OpB)

Jt ==
    /\ Fetch(7)
    /\ IF JtErr # {} THEN PanicHere(JtErr)
       ELSE IF OpA # 0 THEN Goto(OpB) ELSE Goto(pc + 3)

Jf ==
    /\ Fetch(8)
    /\ IF JtErr # {} THEN PanicHere(JtErr)
       ELSE IF OpA = 0 THEN Goto(OpB) ELSE Goto(pc + 3)

\* Add clearing its destination before it reads its operands
Add_ClearsFirst ==
    /\ Fetch(9)
    /\ IF Err3 # {} THEN PanicHere(Err3)
       ELSE LET cleared == [registers EXCEPT ![register(W(pc + 1))] = 0] IN
            Store(AddResult(literal_or_register(W(pc + 2), cleared),
                            literal_or_register(W(pc + 3), cleared)), 4)

Add ==
    /\ Fetch(9)
    /\ IF Err3 # {} THEN PanicHere(Err3) ELSE Store(AddResult(OpB, OpC), 4)

Mult ==
    /\ Fetch(10)
    /\ IF Err3 # {} THEN PanicHere(Err3) ELSE Store(MultResult(OpB, OpC), 4)

\* b % c panics when c is 0
Mod ==
    /\ Fetch(11)
    /\ IF Err3 # {} THEN PanicHere(Err3)
       ELSE IF OpC = 0 THEN PanicHere({"RemainderByZero"})
       ELSE Store(ModResult(OpB, OpC), 4)

And ==
    /\ Fetch(12)
    /\ IF Err3 # {} THEN PanicHere(Err3) ELSE Store(AndResult(OpB, OpC), 4)

Or ==
    /\ Fetch(13)
    /\ IF Err3 # {} THEN PanicHere(Err3) ELSE Store(OrResult(OpB, OpC), 4)

Not ==
    /\ Fetch(14)
    /\ IF Err2 # {} THEN PanicHere(Err2) ELSE Store(NotResult(OpB), 3)

\* *a = words[b as usize]
Rmem ==
    /\ Fetch(15)
    /\ IF Err2 # {} THEN PanicHere(Err2)
       ELSE IF ~InBounds(OpB) THEN PanicHere({"IndexWords"})
       ELSE Store(W(OpB), 3)

\* words[a as usize] = b
Wmem ==
    /\ Fetch(16)
    /\ IF JtErr # {} THEN PanicHere(JtErr)
       ELSE IF ~InBounds(OpA) THEN PanicHere({"IndexWords"})
       ELSE /\ words' = [words EXCEPT ![OpA + 1] = OpB]
            /\ pc' = pc + 3
            /\ UNCHANGED <<registers, stack, callers, output, status, fault>>

\* Call pushing the address of its own operand
Call_PushesOperandAddress ==
    /\ Fetch(17)
    /\ LET stk == Append(stack, (pc + 1) % Two16)
           clr == Append(callers, pc)
       IN  IF SrcErr(pc + 1) # {} THEN Panic(SrcErr(pc + 1), stk, clr, output)
           ELSE /\ stack' = stk
                /\ callers' = clr
                /\ pc' = OpA
                /\ UNCHANGED <<words, registers, output, status, fault>>

\* the return address is pushed before the target operand is read
Call ==
    /\ Fetch(17)
    /\ LET stk == Append(stack, (pc + 2) % Two16)
           clr == Append(callers, pc)
       IN  IF SrcErr(pc + 1) # {} THEN Panic(SrcErr(pc + 1), stk, clr, output)
           ELSE /\ stack' = stk
                /\ callers' = clr
                /\ pc' = OpA
                /\ UNCHANGED <<words, registers, output, status, fault>>

\* pc = stack.pop().unwrap()
Ret ==
    /\ Fetch(18)
    /\ IF stack = <<>> THEN PanicHere({"UnwrapNone"})
       ELSE /\ pc' = stack[Len(stack)]
            /\ stack' = SubSeq(stack, 1, Len(stack) - 1)
            /\ callers' = SubSeq(callers, 1, Len(callers) - 1)
            /\ UNCHANGED <<words, registers, output, status, fault>>

\* print!("{}", a as u8 as char)
Out ==
    /\ Fetch(19)
    /\ IF SrcErr(pc + 1) # {} THEN PanicHere(SrcErr(pc + 1))
       ELSE /\ output' = Append(output, <<"char", OpA % 256>>)
            /\ pc' = pc + 2
            /\ UNCHANGED <<words, registers, stack, callers, status, fault>>

\* the bytes standard input can deliver
InputBytes == {10, 97}

\* the destination is taken first, then "Reading..." is printed, then one
\* byte is read; the end of the input or a read error panics in an unwrap
In ==
    /\ Fetch(20)
    /\ IF DstErr(pc + 1) # {} THEN PanicHere(DstErr(pc + 1))
       ELSE LET out1 == Append(output, <<"Reading...", 0>>)
            IN  \/ Panic({"StdinNone", "StdinErr"}, stack, callers, out1)
                \/ \E byte \in InputBytes :
                      /\ registers' = [registers EXCEPT
                                          ![register(W(pc + 1))] = byte]
                      /\ output' = Append(out1, <<"Read", byte>>)
                      /\ pc' = pc + 2
                      /\ UNCHANGED <<words, stack, callers, status, fault>>

Noop ==
    /\ Fetch(21)
    /\ Goto(pc + 1)

\* an unknown opcode skipped like noop
Unhandled_Skips ==
    /\ status = "Running"
    /\ steps < MaxSteps
    /\ InBounds(pc)
    /\ W(pc) \notin 0..21
    /\ steps' = steps + 1
    /\ last' = [op |-> W(pc), at |-> pc]
    /\ pc' = pc + 1
    /\ UNCHANGED <<words, registers, stack, callers, output, status, fault,
                   run, listing>>

\* x => panic!("Unhandled opcode {}", x)
Unhandled ==
    /\ status = "Running"
    /\ steps < MaxSteps
    /\ InBounds(pc)
    /\ W(pc) \notin 0..21
    /\ steps' = steps + 1
    /\ last' = [op |-> W(pc), at |-> pc]
    /\ UNCHANGED <<run, listing>>
    /\ PanicHere({"UnhandledOpcode"})

(* --------------------------- the disassembler -------------------------- *)

\* the names of the match arms of dissasemble; 20 has no arm
Mnemonic ==
    [w \in (0..21) \ {20} |->
        CASE w = 0 -> "halt" [] w = 1 -> "set" [] w = 2 -> "push"
          [] w = 3 -> "pop" [] w = 4 -> "eq" [] w = 5 -> "gt"
          [] w = 6 -> "jmp" [] w = 7 -> "jump-true" [] w = 8 -> "jump-false"
          [] w = 9 -> "add" [] w = 10 -> "mult" [] w = 11 -> "mod"
          [] w = 12 -> "and" [] w = 13 -> "or" [] w = 14 -> "not"
          [] w = 15 -> "rmem" [] w = 16 -> "wmem" [] w = 17 -> "call"
          [] w = 18 -> "ret" [] w = 19 -> "out" [] w = 21 -> "nop"]

\* fn dissasemble: the text of a word, as the kind of the text, its name and
\* the number it prints
dissasemble(word) ==
    IF word \in DOMAIN Mnemonic
    THEN [kind |-> "mnemonic", name |-> Mnemonic[word], n |-> word]
    ELSE IF word \in RegBase..(RegBase + NumRegs - 1)
    THEN [kind |-> "register", name |-> "Register", n |-> word - RegBase]
    ELSE IF word < 128
    THEN [kind |-> "printable", name |-> "printable", n |-> word]
    ELSE [kind |-> "literal", name |-> "literal", n |-> word]

\* the listing main() prints before the loop: one line for each word
Listing(ws) == [i \in 1..Len(ws) |-> dissasemble(ws[i])]

\* one round of the listing loop: the next word of the image is printed
ListWord ==
    /\ status = "Listing"
    /\ Len(listing) < Len(words)
    /\ listing' = Append(listing, dissasemble(words[Len(listing) + 1]))
    /\ UNCHANGED <<words, registers, stack, pc, status, fault, output, steps,
                   callers, last, run>>

(* ------------------------- the initial images -------------------------- *)

\* operand words the generated instructions are built from: literals,
\* registers, the first and the last invalid operand
Operands == {0, 1, 5, 32767, 32768, 32769, 32776, 65535}

\* every instruction of one opcode (22 stands for the unknown opcodes)
Instrs ==
    {<<op>> : op \in {0, 18, 21, 22}}
    \cup {<<op, a>> : op \in {2, 3, 6, 17, 19, 20}, a \in Operands}
    \cup {<<op, a, b>> : op \in {1, 7, 8, 14, 15, 16}, a \in Operands, b \in Operands}
    \cup {<<op, a, b, c>> : op \in {4, 5, 9, 10, 11, 12, 13},
                            a \in Operands, b \in Operands, c \in Operands}

\* code ahead of the instruction: nothing; set r0 32767, push 5; rmem r1 1
\* (r1 becomes the word 32769), push r1
Pres == {<<>>, <<1, 32768, 32767, 2, 5>>, <<15, 32769, 1, 2, 32769>>}

\* code after the instruction: nothing; halt; ret; out r0, halt
Posts == {<<>>, <<0>>, <<18>>, <<19, 32768, 0>>}

\* add r0 r1 4; out r0; halt
Scenario1 == <<9, 32768, 32769, 4, 19, 32768, 0>>
\* noop; halt
Scenario2 == <<21, 0>>
\* out 'a'; halt
Scenario3 == <<19, 97, 0>>
\* call 4; halt; noop; call 8; ret; noop; push 5; pop r0; ret
Nested == <<17, 4, 0, 21, 17, 8, 18, 21, 2, 5, 3, 32768, 18>>
\* call 0, for ever
CallLoop == <<17, 0>>
\* call 3; halt; pop r0; push 2; ret
Popped == <<17, 3, 0, 3, 32768, 2, 2, 18>>
\* wmem 6 32767; rmem r0 6; halt
WriteRead == <<16, 6, 32767, 15, 32768, 6, 0>>
\* in r0; out r0; halt
Echo == <<20, 32768, 19, 32768, 0>>

\* push 1; push 7; push 5; push 32767; pop r0; pop r1; pop r2; halt
PushPop == <<2, 1, 2, 7, 2, 5, 2, 32767, 3, 32768, 3, 32769, 3, 32770, 0>>
\* rmem r0 11; rmem r1 12; mod r2 r0 r1; halt; the words 40000 and 50000
BigMod == <<15, 32768, 11, 15, 32769, 12, 11, 32770, 32768, 32769, 0, 40000, 50000>>

Programs ==
    {Scenario1, Scenario2, Scenario3, Nested, CallLoop, Popped, WriteRead, Echo,
     PushPop, BigMod}

Images == Programs \cup {pre \o i \o post : pre \in Pres, i \in Instrs, post \in Posts}

\* the state main() enters its loop in
Init ==
    /\ words \in Images
    /\ registers = [r \in 0..(NumRegs - 1) |-> 0]
    /\ stack = <<>>
    /\ pc = 0
    /\ status = "Running"
    /\ fault = "none"
    /\ output = <<>>
    /\ steps = 0
    /\ callers = <<>>
    /\ last = [op |-> -1, at |-> -1]
    /\ run = NoRun
    /\ listing = Listing(words)

Next ==
    \/ FetchFault \/ Halt \/ Set \/ Push \/ Pop \/ Eq \/ Gt \/ Jmp \/ Jt \/ Jf
    \/ Add \/ Mult \/ Mod \/ And \/ Or \/ Not \/ Rmem \/ Wmem \/ Call \/ Ret
    \/ Out \/ In \/ Noop \/ Unhandled

Spec == Init /\ [][Next]_vars

\* the words the listing is checked on: every word below 130, the words
\* around the registers, the largest word
ListedWords == (0..129) \cup (32760..32780) \cup {65535}

\* the images the listing is checked on
ListedImages == {<<w>> : w \in ListedWords} \cup Programs

\* main() before the listing loop
ListInit ==
    /\ words \in ListedImages
    /\ registers = [r \in 0..(NumRegs - 1) |-> 0]
    /\ stack = <<>>
    /\ pc = 0
    /\ status = "Listing"
    /\ fault = "none"
    /\ output = <<>>
    /\ steps = 0
    /\ callers = <<>>
    /\ last = [op |-> -1, at |-> -1]
    /\ run = NoRun
    /\ listing = <<>>

ListNext == ListWord

\* the listing loop of main()
ListSpec == ListInit /\ [][ListNext]_vars

(* ------------------------------ properties ----------------------------- *)

\* the instruction at pc is about to be executed
AtOp(op) == status = "Running" /\ steps < MaxSteps /\ InBounds(pc) /\ W(pc) = op

\* C1: `ret` executed with an empty stack moves the machine to Halted,
\* never to Faulted.
C1_RetOnEmptyStackHalts ==
    [][(AtOp(18) /\ stack = <<>>) => status' = "Halted"]_vars

\* C2: in every reachable state each of the 8 registers holds a value in
\* 0..32767.
C2_RegistersAre15Bit ==
    \A r \in 0..(NumRegs - 1) : registers[r] \in 0..Mask15

\* C3: a `wmem` whose resolved target address is at or past the end of the
\* image and at most 32767 does not fault: the machine stays Running with pc
\* advanced by 3.
C3_WmemPastImageIsValid ==
    [][(AtOp(16) /\ JtErr = {} /\ OpA >= Len(words) /\ OpA <= Mask15)
          => (status' = "Running" /\ pc' = pc + 3)]_vars

\* the offsets of the source operands and of the destination of an opcode
SrcOffsets(op) ==
    CASE op \in {2, 6, 17, 19} -> {1}
      [] op \in {1, 14, 15} -> {2}
      [] op \in {7, 8, 16} -> {1, 2}
      [] op \in {4, 5, 9, 10, 11, 12, 13} -> {2, 3}
      [] OTHER -> {}

DstOps == {1, 3, 4, 5, 9, 10, 11, 12, 13, 14, 15, 20}

\* the state is one in which the next instruction has a defined fault cause
DefinedFaultCause ==
    \/ ~InBounds(pc)
    \/ W(pc) \notin 0..21
    \/ \E k \in SrcOffsets(W(pc)) :
          ~InBounds(pc + k) \/ W(pc + k) >= RegBase + NumRegs
    \/ /\ W(pc) \in DstOps
       /\ ~InBounds(pc + 1) \/ W(pc + 1) \notin RegBase..(RegBase + NumRegs - 1)
    \/ W(pc) = 15 /\ ~InBounds(OpB)
    \/ W(pc) = 16 /\ ~InBounds(OpA)
    \/ W(pc) \in {3, 18} /\ stack = <<>>
    \/ W(pc) = 20

\* C4: every transition from Running into Faulted has one of the defined
\* fault causes: an invalid operand, a non-register destination, an
\* out-of-range address, an unknown opcode, or `pop` on an empty stack. The
\* end of the input, left to the implementation, is allowed for `in`, and
\* `ret` on an empty stack, which C1 is about, is left aside.
C4_OnlyDefinedFaults ==
    [][(status = "Running" /\ status' = "Faulted") => DefinedFaultCause]_vars

\* C5: `pop` with a register destination executed on an empty stack moves
\* the machine to Faulted by the "Empty stack" panic and leaves registers,
\* memory and the stack unchanged.
C5_PopOnEmptyStackFaults ==
    [][(AtOp(3) /\ DstErr(pc + 1) = {} /\ stack = <<>>)
          => (/\ status' = "Faulted"
              /\ fault' = "EmptyStack"
              /\ registers' = registers
              /\ words' = words
              /\ stack' = <<>>)]_vars

C5_Witness ==
    /\ status = "Faulted"
    /\ fault = "EmptyStack"
    /\ last.op = 3
    /\ W(last.at + 1) \in RegBase..(RegBase + NumRegs - 1)
    /\ stack = <<>>

\* C6: a `ret` executed while the top of the stack is the slot a `call` at
\* p pushed sets pc to p + 2, whatever the nesting depth.
C6_RetReturnsAfterCall ==
    [][(AtOp(18) /\ stack # <<>> /\ callers[Len(callers)] # NoCaller)
          => (status' = "Running" /\ pc' = callers[Len(callers)] + 2)]_vars

\* a `ret` has returned from a nested call: an outer call is still open
C6_Witness ==
    /\ status = "Running"
    /\ last.op = 18
    /\ InBounds(pc - 2) /\ W(pc - 2) = 17
    /\ stack # <<>>
    /\ callers[Len(callers)] # NoCaller
    /\ callers[Len(callers)] # pc - 2

\* C7: `add` writes (b + c) mod 32768 and `mult` writes (b * c) mod 32768
\* into the destination register, for the resolved operands b and c.
C7_AddMultWrap ==
    [][((AtOp(9) \/ AtOp(10)) /\ Err3 = {})
          => /\ status' = "Running"
             /\ registers'[register(W(pc + 1))] =
                   IF W(pc) = 9 THEN (OpB + OpC) % 32768 ELSE (OpB * OpC) % 32768
             /\ registers'[register(W(pc + 1))] \in 0..32767]_vars

\* add of 32767 and 5 has written 4
C7_Witness ==
    /\ last.op = 9
    /\ W(last.at) = 9
    /\ status = "Running"
    /\ W(last.at + 2) = 32767
    /\ W(last.at + 3) = 5
    /\ registers[register(W(last.at + 1))] = 4

\* C8: `not` writes 32767 - b into the destination register for a resolved
\* operand b in 0..32767.
C8_NotIsComplement ==
    [][(AtOp(14) /\ Err2 = {} /\ OpB \in 0..32767)
          => /\ status' = "Running"
             /\ registers'[register(W(pc + 1))] = 32767 - OpB]_vars

\* not of the literal 0 has written 32767
C8_Witness ==
    /\ last.op = 14
    /\ W(last.at) = 14
    /\ status = "Running"
    /\ W(last.at + 2) = 0
    /\ registers[register(W(last.at + 1))] = 32767

\* C9: a source operand w resolves to w when w <= 32767, to the current
\* content of register w - 32768 when w is in 32768..32775, and faults the
\* machine when w >= 32776; resolving changes neither registers, memory nor
\* the stack. `push` shows the resolved value on the stack.
C9_ResolverDecodes ==
    [][(AtOp(2) /\ InBounds(pc + 1))
          => LET w == W(pc + 1) IN
             /\ w <= 32767 => (status' = "Running" /\ stack' = Append(stack, w))
             /\ w \in 32768..32775
                   => (status' = "Running"
                       /\ stack' = Append(stack, registers[w - 32768]))
             /\ w >= 32776 => (status' = "Faulted" /\ stack' = stack /\ pc' = pc)
             /\ registers' = registers
             /\ words' = words]_vars

\* a register written earlier has been resolved to its new content
C9_Witness ==
    /\ last.op = 2
    /\ status = "Running"
    /\ W(last.at + 1) = 32769
    /\ registers[1] = 32769
    /\ stack # <<>>
    /\ stack[Len(stack)] = 32769

\* C10: an instruction with a destination operand whose destination word is
\* a literal moves the machine to Faulted and writes no register and no
\* memory word.
C10_LiteralDestinationFaults ==
    [][(status = "Running" /\ steps < MaxSteps /\ InBounds(pc)
          /\ W(pc) \in DstOps /\ InBounds(pc + 1) /\ W(pc + 1) < 32768)
          => (status' = "Faulted" /\ registers' = registers /\ words' = words)]_vars

\* a literal destination was met with every other operand valid
C10_Witness ==
    /\ status = "Faulted"
    /\ fault \in {"SubOverflow", "IndexRegisters"}
    /\ last.op \in DstOps
    /\ W(last.at) = last.op
    /\ W(last.at + 1) < 32768
    /\ \A k \in SrcOffsets(last.op) :
          InBounds(last.at + k) /\ W(last.at + k) < RegBase + NumRegs

\* C11: after pushes followed by pops, each pop writes the value of the
\* matching push, the latest first, and leaves the stack as it was before
\* that push; after as many pops as pushes the stack is the one before the
\* first push.
C11_PushPopReverses ==
    [][(AtOp(3) /\ DstErr(pc + 1) = {} /\ stack # <<>> /\ run.pops < Len(run.vals))
          => LET k == Len(run.vals) - run.pops IN
             /\ status' = "Running"
             /\ registers'[register(W(pc + 1))] = run.vals[k]
             /\ stack' = run.base \o SubSeq(run.vals, 1, k - 1)]_vars

\* three pops have followed four pushes
C11_Witness ==
    /\ last.op = 3
    /\ Len(run.vals) = 4
    /\ run.pops = 3
    /\ stack = <<run.vals[1]>>
    /\ registers[0] = run.vals[4]
    /\ registers[1] = run.vals[3]
    /\ registers[2] = run.vals[2]
    /\ run.vals[2] # run.vals[3] /\ run.vals[3] # run.vals[4]

\* C12: a fetched word outside 0..21 moves the machine to Faulted in that
\* step, at that pc, with registers, memory and stack unchanged.
C12_UnknownOpcodeFaults ==
    [][(status = "Running" /\ steps < MaxSteps /\ InBounds(pc) /\ W(pc) \notin 0..21)
          => /\ status' = "Faulted"
             /\ fault' = "UnhandledOpcode"
             /\ pc' = pc
             /\ registers' = registers
             /\ words' = words
             /\ stack' = stack]_vars

\* a program whose first word is 22 has faulted at pc = 0
C12_Witness ==
    /\ W(0) = 22
    /\ status = "Faulted"
    /\ fault = "UnhandledOpcode"
    /\ pc = 0
    /\ steps = 1
    /\ stack = <<>>
    /\ \A r \in 0..(NumRegs - 1) : registers[r] = 0

\* C13: the output grows only by `out`, by the one character that is the
\* low 8 bits of its resolved operand; no other instruction writes to it.
C13_OnlyOutWrites ==
    [][output' # output
          => (AtOp(19) /\ output' = Append(output, <<"char", OpA % 256>>))]_vars

\* C14: the text of a word is a mnemonic for each of 0..21, a register label
\* naming register w - 32768 for 32768..32775, a printable-character
\* annotation for every other word below 128, a literal annotation otherwise.
C14_DecoderTable ==
    \A i \in 1..Len(listing) :
        LET w == words[i]
            t == listing[i]
        IN  IF w \in 0..21 THEN t.kind = "mnemonic"
            ELSE IF w \in 32768..32775 THEN t.kind = "register" /\ t.n = w - 32768
            ELSE IF w < 128 THEN t.kind = "printable"
            ELSE t.kind = "literal"

\* C15: the length of the memory never changes; a pc outside the memory is
\* followed by nothing but the fault, with nothing read or written; `rmem`
\* and `wmem` with a resolved address outside the memory fault without
\* writing a register or a word.
C15_OutOfRangeFaults ==
    [][/\ Len(words') = Len(words)
       /\ (status = "Running" /\ ~InBounds(pc))
             => (/\ status' = "Faulted"
                 /\ registers' = registers /\ words' = words /\ stack' = stack)
       /\ (AtOp(15) /\ Err2 = {} /\ ~InBounds(OpB))
             => (status' = "Faulted" /\ registers' = registers /\ words' = words)
       /\ (AtOp(16) /\ JtErr = {} /\ ~InBounds(OpA))
             => (status' = "Faulted" /\ registers' = registers /\ words' = words)]_vars

\* a control transfer has left the memory and the next fetch has faulted
C15_Witness ==
    /\ status = "Faulted"
    /\ fault = "IndexWords"
    /\ ~InBounds(pc)
    /\ last.op \in {6, 7, 8, 17, 18}

\* an instruction has been executed without a panic
Executed == status = "Running" /\ status' # "Faulted" /\ steps' = steps + 1

\* C16: an executed instruction changes the memory only if it is wmem, and
\* then one word; the stack only if it is push, pop, call or ret; a register
\* only if it has a destination operand, and then that register alone; noop
\* changes pc alone and halt changes nothing but the status.
C16_FrameOfEachInstruction ==
    [][Executed
          => /\ words' # words
                   => /\ W(pc) = 16
                      /\ Len(words') = Len(words)
                      /\ Cardinality({i \in 1..Len(words) : words'[i] # words[i]}) = 1
             /\ stack' # stack => W(pc) \in {2, 3, 17, 18}
             /\ registers' # registers
                   => /\ W(pc) \in DstOps
                      /\ \A r \in 0..(NumRegs - 1) :
                            r # register(W(pc + 1)) => registers'[r] = registers[r]
             /\ W(pc) = 21
                   => /\ pc' = pc + 1
                      /\ UNCHANGED <<words, registers, stack, output, status>>
             /\ W(pc) = 0
                   => /\ status' = "Halted"
                      /\ UNCHANGED <<words, registers, stack, output, pc>>]_vars

\* noop, halt has ended Halted with nothing changed
C16_Witness ==
    /\ words = Scenario2
    /\ status = "Halted"
    /\ last.op = 0
    /\ \A r \in 0..(NumRegs - 1) : registers[r] = 0
    /\ stack = <<>>
    /\ output = <<>>

\* the pc the instruction at pc leaves, by its table row
ExpectedPc ==
    CASE W(pc) \in {1, 14, 15, 16} -> pc + 3
      [] W(pc) \in {2, 3, 19, 20} -> pc + 2
      [] W(pc) \in {4, 5, 9, 10, 11, 12, 13} -> pc + 4
      [] W(pc) = 21 -> pc + 1
      [] W(pc) \in {6, 17} -> OpA
      [] W(pc) = 7 -> IF OpA # 0 THEN OpB ELSE pc + 3
      [] W(pc) = 8 -> IF OpA = 0 THEN OpB ELSE pc + 3
      [] W(pc) = 18 -> stack[Len(stack)]

\* C17: an executed instruction that leaves the machine Running leaves pc at
\* pc + 1 + (number of operands), or at the resolved or popped target for
\* jmp, call, ret and a taken jt or jf.
C17_PcAdvance ==
    [][(Executed /\ status' = "Running") => pc' = ExpectedPc]_vars

\* a jt whose first operand is the literal 0 has fallen through
C17_Witness ==
    /\ status = "Running"
    /\ last.op = 7
    /\ W(last.at) = 7
    /\ W(last.at + 1) = 0
    /\ W(last.at + 2) # last.at + 3
    /\ pc = last.at + 3

\* C18 as claimed: the step into Faulted leaves registers, memory and the
\* stack as they were before the instruction was fetched.
C18_FaultChangesNothing ==
    [][(status = "Running" /\ status' = "Faulted")
          => (registers' = registers /\ words' = words /\ stack' = stack)]_vars

\* C18: the step into Faulted leaves registers and memory as they were, and
\* the stack too, but for `call`, which has pushed its return address.
C18_FaultChangesOnlyCallStack ==
    [][(status = "Running" /\ status' = "Faulted")
          => /\ registers' = registers
             /\ words' = words
             /\ stack' = IF InBounds(pc) /\ W(pc) = 17
                         THEN Append(stack, (pc + 2) % Two16)
                         ELSE stack]_vars

\* a call with an invalid target operand has faulted with its return
\* address on the stack
C18_Witness ==
    /\ status = "Faulted"
    /\ last.op = 17
    /\ W(last.at) = 17
    /\ InBounds(last.at + 1)
    /\ W(last.at + 1) >= RegBase + NumRegs
    /\ stack # <<>>
    /\ stack[Len(stack)] = last.at + 2

\* C19: `add r r r` leaves r at twice its old value mod 32768, `eq r r r`
\* leaves r at 1 and `set r r` leaves every register as it was.
C19_SourcesReadBeforeWrite ==
    [][/\ (AtOp(9) /\ Err3 = {} /\ W(pc + 1) = W(pc + 2) /\ W(pc + 2) = W(pc + 3))
             => registers'[register(W(pc + 1))]
                   = (2 * registers[register(W(pc + 1))]) % 32768
       /\ (AtOp(4) /\ Err3 = {} /\ W(pc + 1) = W(pc + 2) /\ W(pc + 2) = W(pc + 3))
             => registers'[register(W(pc + 1))] = 1
       /\ (AtOp(1) /\ Err2 = {} /\ W(pc + 1) = W(pc + 2))
             => registers' = registers]_vars

\* add r0 r0 r0 has doubled 32767 into 32766
C19_Witness ==
    /\ status = "Running"
    /\ last.op = 9
    /\ W(last.at) = 9
    /\ W(last.at + 1) = 32768 /\ W(last.at + 2) = 32768 /\ W(last.at + 3) = 32768
    /\ registers[0] = 32766

\* C20: `mod` with a resolved divisor of 0 moves the machine to Faulted and
\* leaves the registers unchanged; with a divisor c # 0 and a dividend b it
\* writes b mod c, a value in 0..32767 whenever b is.
C20_ModWritesRemainder ==
    [][(AtOp(11) /\ Err3 = {})
          => IF OpC = 0
             THEN status' = "Faulted" /\ registers' = registers
             ELSE /\ status' = "Running"
                  /\ registers'[register(W(pc + 1))] = OpB % OpC
                  /\ OpB \in 0..32767
                        => registers'[register(W(pc + 1))] \in 0..32767]_vars

====
